---- MODULE Spec2Model ----
(***************************************************************************)
(* ElectronicStructureDriverResult                                         *)
(* (qiskit_nature/properties/second_quantization/electronic/               *)
(*  electronic_structure_driver_result.py)                                 *)
(*                                                                         *)
(* A grouped property (an insertion-ordered, name-keyed collection of      *)
(* property objects) with one distinguished field, molecule.  The module   *)
(* models its construction, its HDF5 persistence, its conversion from a    *)
(* legacy driver result and its operator collection.                       *)
(*                                                                         *)
(* Objects are records of one shape, so that properties and molecules can  *)
(* sit in the same collection (as they do in a loaded group):              *)
(*   name   the key the object is stored under (a property's name, the     *)
(*          class name for a Molecule)                                     *)
(*   cls    the object's class, which isinstance checks read               *)
(*   val    the object's data (integrals, numbers, ...)                    *)
(*   ops    what the object's own second_q_ops yields: <<key, op>> pairs   *)
(*   geometry, multiplicity, charge   the fields of a Molecule             *)
(* An optional value is a sequence of length 0 (None) or 1.                *)
(***************************************************************************)
EXTENDS Integers, Sequences, FiniteSets, TLC

VARIABLES
    self,                \* the instance at hand: <<>> or <<instance>>
    parent,              \* the HDF5 parent group handed to to_hdf5
    last,                \* the last call: its name, input and outcome
    wrote,               \* history: the instance the last complete to_hdf5 wrote
    dict_aux_operators,  \* qiskit_nature.settings.dict_aux_operators
    res,                 \* second_q_ops: the accumulator ops, then the result
    pc,                  \* second_q_ops: position of the running call
    idx                  \* second_q_ops: loop index of the running call

vars == <<self, parent, last, wrote, dict_aux_operators, res, pc, idx>>

(***************************************************************************)
(* Bounds of the model.                                                    *)
(***************************************************************************)
MaxProps == 2        \* add_property is called while the group holds fewer
MaxOpsProps == 3     \* the same, in the operator-collection specifications
MaxConcProps == 2    \* the same, where the setting changes during a call
MaxAtoms == 2        \* atoms of a legacy result

(***************************************************************************)
(* Classes and names.                                                      *)
(***************************************************************************)
FiveClasses ==
    << "ElectronicEnergy", "ParticleNumber", "AngularMomentum",
       "Magnetization", "ElectronicDipoleMoment" >>

FiveSet == { FiveClasses[i] : i \in 1..Len(FiveClasses) }

\* h5py iterates the members of a group in the order of their names.
KeyOrder ==
    << "AngularMomentum", "Custom", "DriverMetadata",
       "ElectronicBasisTransform", "ElectronicDipoleMoment",
       "ElectronicEnergy", "Magnetization", "Molecule", "ParticleNumber" >>

IsMolecule(o) == o.cls = "Molecule"

\* isinstance(prop, SecondQuantizedProperty): the five physical properties,
\* and a user-defined second-quantized property.
IsSecondQuantized(o) == o.cls \in FiveSet \cup {"Custom"}

Property(name, cls, val, ops) ==
    [ name |-> name, cls |-> cls, val |-> val, ops |-> ops,
      geometry |-> <<>>, multiplicity |-> 0, charge |-> 0 ]

Molecule(geometry, multiplicity, charge) ==
    [ name |-> "Molecule", cls |-> "Molecule", val |-> "", ops |-> <<>>,
      geometry |-> geometry, multiplicity |-> multiplicity, charge |-> charge ]

(***************************************************************************)
(* GroupedProperty: _properties is a dict keyed by name, so a second       *)
(* object of the same name replaces the first and keeps its position.      *)
(***************************************************************************)
NamesOf(props) == { props[i].name : i \in 1..Len(props) }

GroupAdd(props, o) ==
    IF o.name \in NamesOf(props)
    THEN [ i \in 1..Len(props) |->
             IF props[i].name = o.name THEN o ELSE props[i] ]
    ELSE Append(props, o)

\* get_property(cls): the member stored under the class's name, <<>> for None
GetProperty(props, clsname) ==
    IF clsname \in NamesOf(props)
    THEN << props[CHOOSE i \in 1..Len(props) : props[i].name = clsname] >>
    ELSE <<>>

(***************************************************************************)
(* The instance.  assigned counts the assignments of a Molecule to the     *)
(* molecule field (history; __init__ itself stores None).                  *)
(***************************************************************************)
NewInstance == [ props |-> <<>>, molecule |-> <<>>, assigned |-> 0 ]

AddProperty(inst, o) == [ inst EXCEPT !.props = GroupAdd(inst.props, o) ]

SetMolecule(inst, m) ==
    [ inst EXCEPT !.molecule = << m >>, !.assigned = inst.assigned + 1 ]

(***************************************************************************)
(* HDF5.  The parent holds at most one group of this instance's name       *)
(* (self.name is the class name); a group is a set of stored objects with  *)
(* distinct names.                                                         *)
(***************************************************************************)
NoGroup == [ exists |-> FALSE, members |-> {} ]

\* parent.require_group(self.name): the group of that name, created empty
\* when the parent has none; an existing group keeps its members.
RequireGroup(p) == [ exists |-> TRUE, members |-> p.members ]

StoredNames(p) == { o.name : o \in p.members }

\* member.to_hdf5(group): the member's own group, under its name
WriteMember(g, o) ==
    [ g EXCEPT !.members = { x \in g.members : x.name # o.name } \cup {o} ]

RECURSIVE WriteMembers(_, _, _)
WriteMembers(g, props, n) ==
    IF n = 0 THEN g
    ELSE WriteMember(WriteMembers(g, props, n - 1), props[n])

\* GroupedProperty.to_hdf5(parent), stopping before member number failAt
\* when that member's write fails (failAt = 0: no write fails).
SuperToHdf5(inst, p, failAt) ==
    LET n == Len(inst.props)
        stop == IF failAt \in 1..n THEN failAt - 1 ELSE n
    IN  [ parent |-> WriteMembers(RequireGroup(p), inst.props, stop),
          err |-> IF failAt \in 1..n THEN "ValueError" ELSE "" ]

\* The members whose write meets a stored object of the same name.  h5py
\* refuses to create what exists, so such a write may fail; whether it does
\* is the member's code, and both outcomes are kept.  Number n + 1 is the
\* molecule.
MayFailAt(inst, p) ==
    { i \in 1..Len(inst.props) : inst.props[i].name \in StoredNames(p) }
    \cup ( IF inst.molecule # <<>> /\ "Molecule" \in StoredNames(p)
           THEN { Len(inst.props) + 1 } ELSE {} )

\* faulty variant: the molecule is never written
to_hdf5_nomol(inst, p, failAt) ==
    LET sup == SuperToHdf5(inst, p, failAt)
    IN  IF sup.err # "" THEN sup
        ELSE IF inst.molecule = <<>>
        THEN [ parent |-> RequireGroup(sup.parent), err |-> "AttributeError" ]
        ELSE [ parent |-> RequireGroup(sup.parent), err |-> "" ]

\* faulty variant: the molecule is written first, so a missing molecule raises
\* before anything is stored
to_hdf5_molfirst(inst, p, failAt) ==
    IF inst.molecule = <<>> THEN [ parent |-> p, err |-> "AttributeError" ]
    ELSE LET sup == SuperToHdf5(inst, WriteMember(RequireGroup(p), inst.molecule[1]),
                                failAt)
         IN  IF failAt = Len(inst.props) + 1
             THEN [ parent |-> sup.parent, err |-> "ValueError" ]
             ELSE sup

to_hdf5(inst, p, failAt) ==
    LET sup == SuperToHdf5(inst, p, failAt)
        group == RequireGroup(sup.parent)
    IN  IF sup.err # "" THEN sup
        ELSE IF inst.molecule = <<>>
        THEN [ parent |-> group, err |-> "AttributeError" ]
        ELSE IF failAt = Len(inst.props) + 1
        THEN [ parent |-> group, err |-> "ValueError" ]
        ELSE [ parent |-> WriteMember(group, inst.molecule[1]), err |-> "" ]

\* The members of a group in h5py's iteration order.
Load(g) ==
    LET present == SelectSeq(KeyOrder, LAMBDA k : k \in StoredNames(g))
    IN  [ i \in 1..Len(present) |->
            CHOOSE o \in g.members : o.name = present[i] ]

RECURSIVE AddAll(_, _, _)
AddAll(props, objs, n) ==
    IF n = 0 THEN props
    ELSE GroupAdd(AddAll(props, objs, n - 1), objs[n])

\* GroupedElectronicProperty.from_hdf5(h5py_group)
GroupedFromHdf5(g) == AddAll(<<>>, Load(g), Len(Load(g)))

\* faulty variant: the type check is inverted
from_hdf5_step_inverted(ret, prop) ==
    IF ~IsMolecule(prop) THEN SetMolecule(ret, prop)
    ELSE AddProperty(ret, prop)

\* faulty variant: the else is missing, the molecule is added as a property too
from_hdf5_step_noelse(ret, prop) ==
    IF IsMolecule(prop) THEN AddProperty(SetMolecule(ret, prop), prop)
    ELSE AddProperty(ret, prop)

\* one turn of the loop of from_hdf5
from_hdf5_step(ret, prop) ==
    IF IsMolecule(prop) THEN SetMolecule(ret, prop)
    ELSE AddProperty(ret, prop)

RECURSIVE from_hdf5_loop(_, _, _)
from_hdf5_loop(ret, grouped, n) ==
    IF n = 0 THEN ret
    ELSE from_hdf5_step(from_hdf5_loop(ret, grouped, n - 1), grouped[n])

from_hdf5(g) ==
    LET grouped_property == GroupedFromHdf5(g)
    IN  from_hdf5_loop(NewInstance, grouped_property, Len(grouped_property))

(***************************************************************************)
(* The legacy driver result.  kind is the object's class; a QMolecule      *)
(* carries the atoms (coordinates in Bohr, whole numbers here), the        *)
(* multiplicity, the charge, its numerical data and the origin driver.     *)
(***************************************************************************)
\* qiskit_nature.constants.BOHR, 0.52917721092 Angstrom, in units of 1e-8
BOHR == 52917721

NoInput ==
    [ kind |-> "none", atom_symbol |-> <<>>, atom_xyz |-> <<>>,
      multiplicity |-> 0, molecular_charge |-> 0, data |-> "",
      origin_driver_name |-> "" ]

QMolecule(symbols, xyzs, multiplicity, charge, data, driver) ==
    [ kind |-> "QMolecule", atom_symbol |-> symbols, atom_xyz |-> xyzs,
      multiplicity |-> multiplicity, molecular_charge |-> charge,
      data |-> data, origin_driver_name |-> driver ]

WatsonHamiltonian == [ NoInput EXCEPT !.kind = "WatsonHamiltonian" ]

\* cls._validate_input_type(result, QMolecule): TRUE when it does not raise
ValidateInputType(result, type) == result.kind = type

\* What a property's own second_q_ops yields: one operator under the
\* property's name, one per axis for the dipole moment.
OpsOf(cls, val) ==
    IF cls = "ElectronicDipoleMoment"
    THEN << <<"DipoleMomentX", val>>, <<"DipoleMomentY", val>>,
            <<"DipoleMomentZ", val>> >>
    ELSE IF cls \in FiveSet \cup {"Custom"} THEN << <<cls, val>> >>
    ELSE <<>>

PropertyOf(cls, val) == Property(cls, cls, val, OpsOf(cls, val))

\* <Class>.from_legacy_driver_result(qmol), of each physical property
PropertyFromLegacy(cls, qmol) == PropertyOf(cls, qmol.data)

\* ElectronicBasisTransform(AO, MO, qmol.mo_coeff, qmol.mo_coeff_b)
ElectronicBasisTransform(qmol) ==
    PropertyOf("ElectronicBasisTransform", qmol.data)

\* DriverMetadata(origin_driver_name, origin_driver_version, origin_driver_config)
DriverMetadata(qmol) == PropertyOf("DriverMetadata", qmol.origin_driver_name)

\* faulty variant: the coordinates are left in Bohr
Scale_none(xyz) == xyz

\* xyz * BOHR, on the three coordinates
Scale(xyz) == [ j \in 1..Len(xyz) |-> xyz[j] * BOHR ]

Min(a, b) == IF a <= b THEN a ELSE b

\* the loop over zip(qmol.atom_symbol, qmol.atom_xyz)
Geometry(qmol) ==
    [ i \in 1..Min(Len(qmol.atom_symbol), Len(qmol.atom_xyz)) |->
        << qmol.atom_symbol[i], Scale(qmol.atom_xyz[i]) >> ]

\* faulty variant: the third property is converted as the second a second time
RECURSIVE AddFive_dup(_, _, _)
AddFive_dup(ret, qmol, n) ==
    IF n = 0 THEN ret
    ELSE AddProperty(AddFive_dup(ret, qmol, n - 1),
                     PropertyFromLegacy(FiveClasses[IF n = 3 THEN 2 ELSE n], qmol))

RECURSIVE AddFive(_, _, _)
AddFive(ret, qmol, n) ==
    IF n = 0 THEN ret
    ELSE AddProperty(AddFive(ret, qmol, n - 1),
                     PropertyFromLegacy(FiveClasses[n], qmol))

\* faulty variant: the input type is checked after the conversion
from_legacy_driver_result_late(result) ==
    LET qmol == result
        r5 == AddFive(NewInstance, qmol, Len(FiveClasses))
        r6 == AddProperty(r5, ElectronicBasisTransform(qmol))
    IN  IF ~ValidateInputType(result, "QMolecule")
        THEN [ err |-> "QiskitNatureError", ret |-> <<>>,
               constructed |-> 1, added |-> Len(r6.props) ]
        ELSE LET r7 == SetMolecule(r6, Molecule(Geometry(qmol), qmol.multiplicity,
                                                qmol.molecular_charge))
                 r8 == AddProperty(r7, DriverMetadata(qmol))
             IN  [ err |-> "", ret |-> << r8 >>,
                   constructed |-> 1, added |-> Len(FiveClasses) + 2 ]

\* from_legacy_driver_result(result).  constructed and added count the
\* instances built and the add_property calls made by the call.
from_legacy_driver_result(result) ==
    IF ~ValidateInputType(result, "QMolecule")
    THEN [ err |-> "QiskitNatureError", ret |-> <<>>,
           constructed |-> 0, added |-> 0 ]
    ELSE LET qmol == result
             r5 == AddFive(NewInstance, qmol, Len(FiveClasses))
             r6 == AddProperty(r5, ElectronicBasisTransform(qmol))
             r7 == SetMolecule(r6, Molecule(Geometry(qmol), qmol.multiplicity,
                                            qmol.molecular_charge))
             r8 == AddProperty(r7, DriverMetadata(qmol))
         IN  [ err |-> "", ret |-> << r8 >>,
               constructed |-> 1, added |-> Len(FiveClasses) + 2 ]

(***************************************************************************)
(* second_q_ops.  An operator is a pair <<"op", o>>; a mapping is a        *)
(* sequence of <<key, o>> pairs in insertion order, as a Python dict is.   *)
(* A result is [kind, items]; kind is "list", "dict", or the error that    *)
(* ended the call.                                                         *)
(***************************************************************************)
NoResult == [ kind |-> "none", items |-> <<>> ]

\* prop.second_q_ops(): each property reads settings.dict_aux_operators
\* itself, when it is called, and answers with a list or with a mapping.
MemberOps(prop, flag) ==
    IF flag
    THEN [ kind |-> "dict", items |-> prop.ops ]
    ELSE [ kind |-> "list",
           items |-> [ i \in 1..Len(prop.ops) |-> << "op", prop.ops[i][2] >> ] ]

\* ops.extend(r): a list is appended; a mapping is iterated, which yields
\* its keys.
ListExtend(ops, r) ==
    IF r.kind = "list" THEN ops \o r.items
    ELSE ops \o [ i \in 1..Len(r.items) |-> << "key", r.items[i][1] >> ]

\* faulty variant: a key that is present keeps its operator
DictPut_first(items, kv) ==
    IF \E i \in 1..Len(items) : items[i][1] = kv[1] THEN items
    ELSE Append(items, kv)

\* ops[key] = o
DictPut(items, kv) ==
    IF \E i \in 1..Len(items) : items[i][1] = kv[1]
    THEN [ i \in 1..Len(items) |-> IF items[i][1] = kv[1] THEN kv ELSE items[i] ]
    ELSE Append(items, kv)

RECURSIVE DictPutAll(_, _, _)
DictPutAll(items, kvs, n) ==
    IF n = 0 THEN items
    ELSE DictPut(DictPutAll(items, kvs, n - 1), kvs[n])

\* ops.update(r): a mapping is merged key by key; a list of operators is
\* no sequence of key/value pairs, and update raises (a TypeError or a
\* ValueError, by what an operator offers to iteration) unless it is empty.
DictUpdate(ops, r) ==
    IF r.kind = "dict"
    THEN [ kind |-> "dict", items |-> DictPutAll(ops, r.items, Len(r.items)) ]
    ELSE IF r.items = <<>> THEN [ kind |-> "dict", items |-> ops ]
    ELSE [ kind |-> "UpdateError", items |-> ops ]

\* one turn of the loop over the five classes (list mode); flag is the
\* setting at the time the member is asked
ListStep(ops, props, cls, flag) ==
    LET prop == GetProperty(props, cls)
    IN  IF prop = <<>> \/ ~IsSecondQuantized(prop[1]) THEN ops
        ELSE ListExtend(ops, MemberOps(prop[1], flag))

\* one turn of the loop over iter(self) (mapping mode)
DictStep(ops, prop, flag) ==
    IF ~IsSecondQuantized(prop) THEN [ kind |-> "dict", items |-> ops ]
    ELSE DictUpdate(ops, MemberOps(prop, flag))

RECURSIVE ListLoop(_, _, _)
ListLoop(props, flag, n) ==
    IF n = 0 THEN <<>>
    ELSE ListStep(ListLoop(props, flag, n - 1), props, FiveClasses[n], flag)

RECURSIVE DictLoop(_, _, _)
DictLoop(props, flag, n) ==
    IF n = 0 THEN [ kind |-> "dict", items |-> <<>> ]
    ELSE LET before == DictLoop(props, flag, n - 1)
         IN  IF before.kind # "dict" THEN before
             ELSE DictStep(before.items, props[n], flag)

\* faulty variant: list mode walks the members in the order they were added
RECURSIVE InsertionLoop(_, _, _)
InsertionLoop(props, flag, n) ==
    IF n = 0 THEN <<>>
    ELSE LET ops == InsertionLoop(props, flag, n - 1)
         IN  IF props[n].name \in FiveSet /\ IsSecondQuantized(props[n])
             THEN ListExtend(ops, MemberOps(props[n], flag))
             ELSE ops

second_q_ops_insertion(inst, flag) ==
    IF ~flag
    THEN [ kind |-> "list",
           items |-> InsertionLoop(inst.props, flag, Len(inst.props)) ]
    ELSE DictLoop(inst.props, flag, Len(inst.props))

\* second_q_ops() with the setting at flag for the whole call
second_q_ops(inst, flag) ==
    IF ~flag
    THEN [ kind |-> "list",
           items |-> ListLoop(inst.props, flag, Len(FiveClasses)) ]
    ELSE DictLoop(inst.props, flag, Len(inst.props))

(***************************************************************************)
(* The calls.  last records the call that was made last.                   *)
(***************************************************************************)
Outcome(op) ==
    [ op |-> op, input |-> NoInput, err |-> "", fresh |-> FALSE,
      changed |-> FALSE, constructed |-> 0, added |-> 0, returned |-> FALSE,
      flag |-> FALSE, flipped |-> FALSE, group |-> <<>> ]

Vals == { "d1", "d2" }

\* the property objects a caller hands to add_property
Catalogue ==
    { PropertyOf("ParticleNumber", "d2"), PropertyOf("Custom", "d1"),
      PropertyOf("Custom", "d2"), PropertyOf("DriverMetadata", "d2") }

\* the legacy results the lifecycle specification converts
LegacySamples ==
    { QMolecule(<<"H", "H">>, << <<0, 0, 0>>, <<0, 0, 2>> >>, 1, 0, "d1", "PYSCF"),
      QMolecule(<<"Li">>, << <<-1, 3, 0>> >>, 2, 1, "d1", "PYSCF"),
      WatsonHamiltonian }

OpsIdle == UNCHANGED <<dict_aux_operators, res, pc, idx>>

\* ElectronicStructureDriverResult()
Construct ==
    /\ pc = "idle"
    /\ self' = << NewInstance >>
    /\ last' = [ Outcome("__init__") EXCEPT !.constructed = 1, !.returned = TRUE ]
    /\ UNCHANGED <<parent, wrote>>
    /\ OpsIdle

\* self.add_property(o)
AddPropertyCall(o, max) ==
    /\ self # <<>>
    /\ pc = "idle"
    /\ Len(self[1].props) < max
    /\ self' = << AddProperty(self[1], o) >>
    /\ last' = [ Outcome("add_property") EXCEPT !.added = 1 ]
    /\ UNCHANGED <<parent, wrote>>
    /\ OpsIdle

\* self.to_hdf5(parent)
ToHdf5Call(failAt) ==
    /\ self # <<>>
    /\ failAt \in {0} \cup MayFailAt(self[1], parent)
    /\ LET r == to_hdf5(self[1], parent, failAt)
       IN  /\ parent' = r.parent
           /\ last' = [ Outcome("to_hdf5") EXCEPT !.err = r.err,
                          !.fresh = ~parent.exists,
                          !.changed = (r.parent # parent) ]
           /\ wrote' = IF r.err = ""
                       THEN << [ inst |-> self[1], fresh |-> ~parent.exists ] >>
                       ELSE <<>>
    /\ UNCHANGED self
    /\ OpsIdle

\* ElectronicStructureDriverResult.from_hdf5(parent[self.name])
FromHdf5Call ==
    /\ parent.exists
    /\ self' = << from_hdf5(parent) >>
    /\ last' = [ Outcome("from_hdf5") EXCEPT !.constructed = 1,
                   !.added = Len(self'[1].props), !.returned = TRUE ]
    /\ UNCHANGED <<parent, wrote>>
    /\ OpsIdle

\* ElectronicStructureDriverResult.from_legacy_driver_result(result)
FromLegacyCall(result) ==
    /\ LET r == from_legacy_driver_result(result)
       IN  /\ self' = IF r.ret # <<>> THEN r.ret ELSE self
           /\ last' = [ Outcome("from_legacy_driver_result") EXCEPT
                          !.input = result, !.err = r.err,
                          !.constructed = r.constructed, !.added = r.added,
                          !.returned = (r.ret # <<>>) ]
    /\ UNCHANGED <<parent, wrote>>
    /\ OpsIdle

\* the caller opens another, empty store
OpenNewStore ==
    /\ parent.exists
    /\ parent' = NoGroup
    /\ wrote' = <<>>
    /\ last' = Outcome("new_store")
    /\ UNCHANGED self
    /\ OpsIdle

Init ==
    /\ self = <<>>
    /\ parent = NoGroup
    /\ last = Outcome("none")
    /\ wrote = <<>>
    /\ dict_aux_operators = FALSE
    /\ res = NoResult
    /\ pc = "idle"
    /\ idx = 0

Next ==
    \/ Construct
    \/ \E o \in Catalogue : AddPropertyCall(o, MaxProps)
    \/ \E failAt \in 0..(Len(KeyOrder) + 1) : ToHdf5Call(failAt)
    \/ FromHdf5Call
    \/ \E result \in LegacySamples : FromLegacyCall(result)
    \/ OpenNewStore

Spec == Init /\ [][Next]_vars

(***************************************************************************)
(* The legacy conversion on its own, over every legacy result of up to     *)
(* MaxAtoms atoms.                                                         *)
(***************************************************************************)
Symbols == { "H", "Li" }

Coords == { <<0, 0, 0>>, <<0, 0, 2>>, <<-1, 3, 0>> }

\* a QMolecule holds one symbol and one coordinate triple per atom
LegacyInputs ==
    UNION { { QMolecule(sym, xyz, m, c, d, "PYSCF") :
                sym \in [1..n -> Symbols], xyz \in [1..n -> Coords],
                m \in {1, 3}, c \in {0, 1}, d \in Vals } : n \in 1..MaxAtoms }
    \cup { WatsonHamiltonian }

\* the legacy result to convert is drawn at the start
InitLegacy ==
    /\ self = <<>>
    /\ parent = NoGroup
    /\ last \in { [ Outcome("none") EXCEPT !.input = q ] : q \in LegacyInputs }
    /\ wrote = <<>>
    /\ dict_aux_operators = FALSE
    /\ res = NoResult
    /\ pc = "idle"
    /\ idx = 0

NextLegacy == last.op = "none" /\ FromLegacyCall(last.input)

SpecLegacy == InitLegacy /\ [][NextLegacy]_vars

(***************************************************************************)
(* Properties of the persistence and of the legacy conversion.             *)
(***************************************************************************)
Members(inst) == { inst.props[i] : i \in 1..Len(inst.props) }

Equivalent(a, b) == a.molecule = b.molecule /\ Members(a) = Members(b)

Loaded == last.op = "from_hdf5"

Converted == last.op = "from_legacy_driver_result" /\ last.input.kind = "QMolecule"

CountCls(inst, c) ==
    Cardinality({ i \in 1..Len(inst.props) : inst.props[i].cls = c })

\* C1, as stated: an instance whose molecule is set, written by to_hdf5
\* into a store and read back by from_hdf5, comes back equivalent: the same
\* molecule and the same set of properties with the same values.
C1_RoundTripAnyStore ==
    (Loaded /\ wrote # <<>>) => Equivalent(self[1], wrote[1].inst)

\* C1, amended: the round trip returns an equivalent instance when the
\* store held no group of the instance's name before to_hdf5 wrote it.
C1_RoundTripFreshGroup ==
    (Loaded /\ wrote # <<>> /\ wrote[1].fresh)
        => Equivalent(self[1], wrote[1].inst)

C1_Witness ==
    /\ Loaded /\ wrote # <<>> /\ wrote[1].fresh
    /\ Len(wrote[1].inst.props) > 7
    /\ self[1].molecule # <<>>
    /\ Len(self[1].molecule[1].geometry) = 2

\* C2: for a QMolecule, from_legacy_driver_result returns an instance with
\* exactly the five physical properties, one basis transform, one metadata
\* property and nothing else, and with its molecule set.
C2_LegacyPropertyCount ==
    Converted =>
        /\ last.err = "" /\ last.returned
        /\ \A c \in FiveSet \cup { "ElectronicBasisTransform", "DriverMetadata" } :
               CountCls(self[1], c) = 1
        /\ Cardinality({ i \in 1..Len(self[1].props) :
                           self[1].props[i].cls \in FiveSet }) = 5
        /\ Len(self[1].props) = 7
        /\ Len(self[1].molecule) = 1 /\ IsMolecule(self[1].molecule[1])

C2_Witness ==
    Converted /\ last.returned /\ Len(self[1].props) = 7
              /\ Len(last.input.atom_symbol) = 2

\* C5: an input that is not a QMolecule ends in the invalid-input-type
\* error before any work: no instance is constructed, no property is
\* added, nothing is returned.
C5_RejectedBeforeWork ==
    (last.op = "from_legacy_driver_result" /\ last.input.kind # "QMolecule")
        => /\ last.err = "QiskitNatureError"
           /\ last.constructed = 0
           /\ last.added = 0
           /\ ~last.returned

C5_Witness ==
    /\ last.op = "from_legacy_driver_result"
    /\ last.input.kind = "WatsonHamiltonian"
    /\ last.err = "QiskitNatureError"

\* C6: the molecule's geometry has one entry per legacy atom, in order,
\* with the atom's symbol and each coordinate multiplied by BOHR; its
\* multiplicity and charge are the legacy ones.
C6_GeometryScaled ==
    Converted =>
        LET m == self[1].molecule[1]
            q == last.input
        IN  /\ Len(m.geometry) = Len(q.atom_symbol)
            /\ \A i \in 1..Len(q.atom_symbol) :
                 /\ m.geometry[i][1] = q.atom_symbol[i]
                 /\ Len(m.geometry[i][2]) = 3
                 /\ \A j \in 1..3 : m.geometry[i][2][j] = q.atom_xyz[i][j] * BOHR
            /\ m.multiplicity = q.multiplicity
            /\ m.charge = q.molecular_charge

C6_Witness ==
    /\ Converted
    /\ Len(self[1].molecule[1].geometry) = 2
    /\ self[1].molecule[1].geometry[1][1] # self[1].molecule[1].geometry[2][1]
    /\ self[1].molecule[1].geometry[2][2] = << -BOHR, 3 * BOHR, 0 >>
    /\ self[1].molecule[1].multiplicity = 3

MoleculeEntries(g) == { o \in g.members : IsMolecule(o) }

\* C7, as stated: an instance returned by from_legacy_driver_result or by
\* from_hdf5 has its molecule set, and the field was assigned exactly once
\* while the instance was built, whatever the loaded group holds.
C7_MoleculeSetExactlyOnce ==
    ((Converted /\ last.returned) \/ Loaded)
        => (self[1].molecule # <<>> /\ self[1].assigned = 1)

\* C7, amended: from_legacy_driver_result assigns the molecule exactly
\* once; from_hdf5 assigns it once per molecule-typed entry of the loaded
\* group, which holds at most one, so the returned molecule is set exactly
\* when the group holds a molecule entry and is left unset otherwise.
C7_MoleculeAssignedPerEntry ==
    /\ (Converted /\ last.returned)
           => (self[1].molecule # <<>> /\ self[1].assigned = 1)
    /\ Loaded
           => /\ self[1].assigned = Cardinality(MoleculeEntries(parent))
              /\ self[1].assigned <= 1
              /\ (self[1].molecule # <<>>) <=> (MoleculeEntries(parent) # {})

C7_Witness ==
    Loaded /\ self[1].molecule = <<>> /\ self[1].assigned = 0
           /\ Len(self[1].props) > 0

\* C8: after from_hdf5 a molecule-typed entry of the group is the molecule
\* field and is no member of the property collection, and every other
\* entry of the group is a member of the property collection.
C8_LoadPartitions ==
    Loaded =>
        /\ \A o \in parent.members :
             IF IsMolecule(o)
             THEN self[1].molecule = << o >> /\ o \notin Members(self[1])
             ELSE o \in Members(self[1])
        /\ \A o \in Members(self[1]) : ~IsMolecule(o) /\ o \in parent.members

C8_Witness ==
    Loaded /\ MoleculeEntries(parent) # {} /\ Len(self[1].props) > 7

NeverSet == self # <<>> /\ self[1].molecule = <<>> /\ self[1].assigned = 0

\* C10, as stated: to_hdf5 on an instance whose molecule was never set
\* ends in an error and leaves the store holding the instance's group with
\* its properties and no molecule entry, so the store has changed.
C10_PartialWriteAnyStore ==
    (last.op = "to_hdf5" /\ NeverSet)
        => /\ last.err # ""
           /\ parent.exists
           /\ Members(self[1]) \subseteq parent.members
           /\ MoleculeEntries(parent) = {}
           /\ last.changed

\* C10, amended: to_hdf5 on an instance whose molecule was never set always
\* ends in an error and writes no molecule entry; into a store that held no
\* group of the instance's name the error is the missing molecule's, it
\* comes after the properties were written, and the store is left holding
\* the group with exactly those properties and no molecule entry.
C10_PartialWriteFreshStore ==
    (last.op = "to_hdf5" /\ NeverSet)
        => /\ last.err # ""
           /\ parent.exists
           /\ last.fresh =>
                /\ last.err = "AttributeError"
                /\ parent.members = Members(self[1])
                /\ MoleculeEntries(parent) = {}
                /\ last.changed

C10_Witness ==
    /\ last.op = "to_hdf5" /\ NeverSet /\ last.fresh
    /\ last.err = "AttributeError"
    /\ Cardinality(parent.members) = 2

(***************************************************************************)
(* Operator collection, one call at a time.                                *)
(***************************************************************************)
\* the property objects of the operator-collection specifications: the
\* library's own, a property stored under a physical property's name that
\* is not second-quantized, and user-defined second-quantized properties
\* whose operators reuse keys of others
OpsCatalogue ==
    { PropertyOf("ElectronicEnergy", "o1"),
      PropertyOf("ElectronicEnergy", "o2"),
      PropertyOf("ParticleNumber", "o1"),
      PropertyOf("ElectronicDipoleMoment", "o1"),
      PropertyOf("DriverMetadata", "o1"),
      Property("Magnetization", "PseudoProperty", "o1", <<>>),
      Property("Custom", "Custom", "o2", << <<"ElectronicEnergy", "o2">> >>),
      Property("Custom", "Custom", "o3",
               << <<"Aux", "o3">>, <<"DipoleMomentY", "o3">> >>) }

\* settings.dict_aux_operators = b, between calls
SetFlag(b) ==
    /\ pc = "idle"
    /\ dict_aux_operators' = b
    /\ last' = Outcome("settings")
    /\ UNCHANGED <<self, parent, wrote, res, pc, idx>>

\* self.second_q_ops()
SecondQOpsCall ==
    /\ self # <<>>
    /\ pc = "idle"
    /\ res' = second_q_ops(self[1], dict_aux_operators)
    /\ last' = [ Outcome("second_q_ops") EXCEPT !.flag = dict_aux_operators,
                                                !.group = self ]
    /\ UNCHANGED <<self, parent, wrote, dict_aux_operators, pc, idx>>

NextOps ==
    \/ Construct
    \/ \E o \in OpsCatalogue : AddPropertyCall(o, MaxOpsProps)
    \/ \E b \in BOOLEAN : SetFlag(b)
    \/ SecondQOpsCall

SpecOps == Init /\ [][NextOps]_vars

Collected == last.op = "second_q_ops" /\ pc = "idle"

SQMembers(inst) == { m \in Members(inst) : IsSecondQuantized(m) }

\* the operators of the members stored under the first n of the five names
RECURSIVE FixedOrderOps(_, _)
FixedOrderOps(members, n) ==
    IF n = 0 THEN <<>>
    ELSE LET here == { m \in members : m.name = FiveClasses[n] }
         IN  FixedOrderOps(members, n - 1) \o
             ( IF here = {} THEN <<>>
               ELSE LET m == CHOOSE x \in here : TRUE
                    IN  [ i \in 1..Len(m.ops) |-> << "op", m.ops[i][2] >> ] )

\* C3: in list mode the result is the list of the operators of the
\* second-quantized members stored under the five names, in the fixed order
\* of the five and whatever the order of insertion; a name that is missing
\* or holds no second-quantized property adds nothing.
C3_ListFixedOrder ==
    (Collected /\ ~last.flag)
        => /\ res.kind = "list"
           /\ res.items = FixedOrderOps(SQMembers(self[1]), Len(FiveClasses))

C3_Witness ==
    /\ Collected /\ ~last.flag
    /\ Len(self[1].props) = 3
    /\ self[1].props[1].name = "ElectronicDipoleMoment"
    /\ self[1].props[2].name = "Magnetization"
    /\ self[1].props[3].name = "ElectronicEnergy"
    /\ res.items = << <<"op", "o2">>, <<"op", "o1">>, <<"op", "o1">>, <<"op", "o1">> >>

KeysOf(m) == { m.ops[i][1] : i \in 1..Len(m.ops) }

\* the members, by position, whose second_q_ops yield key k
Producers(inst, k) ==
    { j \in 1..Len(inst.props) :
        IsSecondQuantized(inst.props[j]) /\ k \in KeysOf(inst.props[j]) }

Max(S) == CHOOSE x \in S : \A y \in S : y <= x

OpUnder(m, k) == m.ops[CHOOSE i \in 1..Len(m.ops) : m.ops[i][1] = k][2]

\* C4: in mapping mode the result holds each key once; a key that several
\* second-quantized members yield carries the operator of the member
\* iterated last, and a key is in the result exactly when a member yields it.
C4_MappingLastWins ==
    (Collected /\ last.flag)
        => /\ res.kind = "dict"
           /\ \A i, j \in 1..Len(res.items) :
                res.items[i][1] = res.items[j][1] => i = j
           /\ \A i \in 1..Len(res.items) :
                LET k == res.items[i][1]
                IN  /\ Producers(self[1], k) # {}
                    /\ res.items[i][2] =
                         OpUnder(self[1].props[Max(Producers(self[1], k))], k)
           /\ \A j \in 1..Len(self[1].props) :
                IsSecondQuantized(self[1].props[j]) =>
                  \A k \in KeysOf(self[1].props[j]) :
                    \E i \in 1..Len(res.items) : res.items[i][1] = k

C4_Witness ==
    /\ Collected /\ last.flag
    /\ \E k \in { "ElectronicEnergy", "DipoleMomentY" } :
         /\ Cardinality(Producers(self[1], k)) = 2
         /\ \E a, b \in Producers(self[1], k) :
              a < b /\ OpUnder(self[1].props[a], k) # OpUnder(self[1].props[b], k)
         /\ \E i \in 1..Len(res.items) : res.items[i][1] = k

(***************************************************************************)
(* Operator collection while another actor changes the setting: the call   *)
(* advances one loop turn at a time.  pc is "idle" between calls and the   *)
(* branch taken ("list" or "dict") during one; last.flag is the setting    *)
(* the call read, last.flipped whether the setting changed during it,      *)
(* last.group the instance as the call found it.                           *)
(***************************************************************************)
\* the branch a loop turn runs in: the one chosen when the call began
Branch_reread(mode, flag) == IF flag THEN "dict" ELSE "list"

Branch(mode, flag) == mode

\* "if not settings.dict_aux_operators:", the call's one read of the setting
SecondQOpsBegin ==
    /\ self # <<>>
    /\ pc = "idle"
    /\ pc' = IF dict_aux_operators THEN "dict" ELSE "list"
    /\ idx' = 0
    /\ res' = [ kind |-> pc', items |-> <<>> ]
    /\ last' = [ Outcome("second_q_ops") EXCEPT !.flag = dict_aux_operators,
                                                !.group = self ]
    /\ UNCHANGED <<self, parent, wrote, dict_aux_operators>>

\* one turn of "for cls in [...]"
SecondQOpsListTurn ==
    /\ pc # "idle"
    /\ Branch(pc, dict_aux_operators) = "list"
    /\ idx < Len(FiveClasses)
    /\ res' = [ kind |-> "list",
                items |-> ListStep(res.items, self[1].props,
                                   FiveClasses[idx + 1], dict_aux_operators) ]
    /\ idx' = idx + 1
    /\ pc' = "list"
    /\ UNCHANGED <<self, parent, wrote, last, dict_aux_operators>>

\* one turn of "for prop in iter(self)"; an exception ends the call
SecondQOpsDictTurn ==
    /\ pc # "idle"
    /\ Branch(pc, dict_aux_operators) = "dict"
    /\ idx < Len(self[1].props)
    /\ res' = DictStep(res.items, self[1].props[idx + 1], dict_aux_operators)
    /\ idx' = idx + 1
    /\ pc' = IF res'.kind = "dict" THEN "dict" ELSE "idle"
    /\ UNCHANGED <<self, parent, wrote, last, dict_aux_operators>>

\* "return ops"
SecondQOpsReturn ==
    /\ pc # "idle"
    /\ LET b == Branch(pc, dict_aux_operators)
       IN  \/ b = "list" /\ idx >= Len(FiveClasses)
           \/ b = "dict" /\ idx >= Len(self[1].props)
    /\ pc' = "idle"
    /\ UNCHANGED <<self, parent, wrote, last, dict_aux_operators, res, idx>>

\* another actor assigns settings.dict_aux_operators
FlipFlag ==
    /\ dict_aux_operators' = ~dict_aux_operators
    /\ last' = IF pc # "idle" THEN [ last EXCEPT !.flipped = TRUE ]
               ELSE Outcome("settings")
    /\ UNCHANGED <<self, parent, wrote, res, pc, idx>>

NextConc ==
    \/ Construct
    \/ \E o \in OpsCatalogue : AddPropertyCall(o, MaxConcProps)
    \/ SecondQOpsBegin
    \/ SecondQOpsListTurn
    \/ SecondQOpsDictTurn
    \/ SecondQOpsReturn
    \/ FlipFlag

SpecConc == Init /\ [][NextConc]_vars

\* C9, as stated: whatever happens to the setting during the call, the
\* result is entirely the list accumulation over the five classes or
\* entirely the mapping accumulation over all members.
C9_NeverAMixture ==
    Collected =>
        \/ res = second_q_ops(self[1], FALSE)
        \/ res = second_q_ops(self[1], TRUE)

\* C9, amended: second_q_ops reads the setting once, before it collects, so
\* the branch and the type of the container are fixed for the call, and the
\* call leaves the group as it found it; the content is the list or the
\* mapping accumulation only if the setting did not change during the call,
\* because every member reads the setting again when it is asked.
C9_BranchFixedAtStart ==
    /\ pc # "idle" =>
         /\ pc = (IF last.flag THEN "dict" ELSE "list")
         /\ res.kind = pc
         /\ self = last.group
    /\ Collected =>
         /\ self = last.group
         /\ ~last.flag => res.kind = "list"
         /\ last.flag => res.kind \in { "dict", "UpdateError" }
         /\ ~last.flipped => res = second_q_ops(self[1], last.flag)

C9_Witness ==
    /\ Collected /\ last.flipped /\ ~last.flag
    /\ res.kind = "list"
    /\ \E i, j \in 1..Len(res.items) :
         res.items[i][1] = "op" /\ res.items[j][1] = "key"

====
